---------------------------- MODULE Spec2Model ----------------------------
(***************************************************************************)
(* Model of src/tauri_audit_gui/src-tauri/src/main.rs: the two commands    *)
(* generate_pdf_report (single-page report layout + save) and              *)
(* read_tail_chunk (offset-based tail read of a growing log file).         *)
(*                                                                         *)
(* Lengths on the page are f64 millimetres in the source; every value the  *)
(* code computes is a multiple of 0.5, which binary floating point holds   *)
(* exactly, so the model counts in half-millimetres (285.0 -> 570).        *)
(***************************************************************************)
EXTENDS Integers, Sequences, FiniteSets, TLC

VARIABLES
    \* ---- generate_pdf_report ----
    payload,    \* the ReportPayload argument
    dest,       \* what is at the destination path
    page,       \* the use_text calls made on the layer, in order
    rret,       \* "none" before the call, then "ok" / "err"
    rstage,     \* how far the call got: "none","font","create","save","done"
    \* ---- read_tail_chunk, whole-call view ----
    fstat,      \* "ok" | "missing" | "denied": can the path be opened
    file,       \* the file's bytes
    held,       \* the polling caller's offset (the last length it was given)
    last,       \* the last call: its input, what the file was, its result
    owed,       \* code points appended since the polling caller's last read
    chain,      \* TRUE while only appends happened since that read
    first,      \* the offset the current chain of reads started from
    got,        \* concatenation of the texts the chain of reads returned
    \* ---- read_tail_chunk, step view (one caller per element of Procs) ----
    pc, off, flen, hpos, res, rheld, clean, alone,
    \* ---- the Tailer's resynchronisation (recorded when watch is set) ----
    watch, pend, sync, coll, syncOk

rvars == <<payload, dest, page, rret, rstage>>
tvars == <<fstat, file, held, last, owed, chain, first, got>>
cvars == <<pc, off, flen, hpos, res, rheld, clean, alone, watch, pend, sync, coll, syncOk>>
vars  == <<rvars, tvars, cvars>>

Min(a, b) == IF a < b THEN a ELSE b

(***************************************************************************)
(*                        generate_pdf_report                              *)
(***************************************************************************)

\* Bounds of the inputs.
MaxTop    == 6      \* longest ranked sequence tried
DenseRows == 44     \* every row count 20..DenseRows is tried (and 0, 1, 2)
LongRows  == 101    \* and LongRows - 1, LongRows

\* Layout constants (half-millimetres).
StartY        == 570   \* let mut y = 285.0
Line          == 12    \* let line = 6.0
TitleDrop     == 20    \* y -= 10.0 after "Audit Report"
StampDrop     == 24    \* y -= 12.0 after "Generated ..."
SummaryDrop   == 20    \* y -= 10.0 after the totals line
SectionDrop   == 16    \* *y -= 8.0 in section_title
SectionGap    == 8     \* y -= 4.0 after Top Categories / Top Users
EventsGap     == 12    \* y -= 6.0 after Top Actions
RowDrop       == 9     \* y -= 4.5 per event row
BottomMargin  == 40    \* if y < 20.0 { break }
TopN          == 5     \* .take(5)
MaxRows       == 100   \* .take(100)

\* iter().take(n)
Take(s, n) == SubSeq(s, 1, Min(Len(s), n))

\* A ranked sequence of n (label, count) pairs.  Labels are the positions, so
\* order is visible; counts are not monotone, so a re-sort would be visible.
Ranked(n) == [i \in 1..n |-> <<i, (i * 2) % 5>>]

\* n ReportRow values with distinguishable fields.
Rows(n) == [i \in 1..n |->
              [timestamp |-> i, action |-> i % 3, category |-> i % 2,
               user |-> (i + 1) % 3, status |-> i % 2]]

\* Row counts: a few rows, every count around the 22..42 rows a page can hold,
\* and counts at and past the cap of 100.
RowLens == {0, 1, 2} \cup (20..DenseRows) \cup {LongRows - 1, LongRows}

Payloads ==
    { [total |-> 10, success |-> 7, failure |-> 3,
       top_categories |-> Ranked(a), top_users |-> Ranked(b),
       top_actions |-> Ranked(c), rows |-> Rows(r)] :
         a \in 0..MaxTop, b \in 0..MaxTop, c \in 0..MaxTop, r \in RowLens }

\* layer.use_text(text, size, Mm(x), Mm(y), font): one placed line.
UseText(kind, sec, text, y) == [kind |-> kind, sec |-> sec, text |-> text, y |-> y]

\* format!("{}: {}", k, v)
FmtEntry(e) == <<e[1], ": ", e[2]>>

\* format!("{} | {} | {} | {} | {}", ...)
FmtRow(r) == <<r.timestamp, " | ", r.action, " | ", r.category, " | ",
               r.user, " | ", r.status>>

\* Lines 43-61: title, generation stamp, totals.  Returns the lines and y.
Header(p) ==
    LET y0 == StartY
        y1 == y0 - TitleDrop
        y2 == y1 - StampDrop
    IN [lines |-> << UseText("title", 0, <<"Audit Report">>, y0),
                     UseText("stamp", 0, <<"Generated ", "now">>, y1),
                     UseText("summary", 0,
                             <<"Total: ", p.total, "  Success: ", p.success,
                               "  Failure: ", p.failure>>, y2) >>,
        y |-> y2 - SummaryDrop]

\* Faulty variant of RankedTake: one entry too many.
RankedTakeWide(entries) == Take(entries, TopN + 1)

\* The entries a ranked section's loop visits: iter().take(5).
RankedTake(entries) == Take(entries, TopN)

\* section_title + the for loop over .take(5); `gap` is the y -= after it.
Section(st, sec, title, entries, gap) ==
    LET yt == st.y - SectionDrop
        es == RankedTake(entries)
        ls == [i \in 1..Len(es) |->
                 UseText("entry", sec, FmtEntry(es[i]), yt - Line * (i - 1))]
    IN [lines |-> st.lines \o <<UseText("section", sec, <<title>>, st.y)>> \o ls,
        y |-> yt - Line * Len(es) - gap]

\* Faulty variant of MarginHit: the loop never breaks.
MarginHitNever(y) == FALSE

\* The margin test made after a row is placed and y is decreased.
MarginHit(y) == y < BottomMargin

\* Faulty variant of AfterRow: rows spaced like summary lines.
AfterRowLine(y) == y - Line

\* Where the cursor is after a row was placed at y.
AfterRow(y) == y - RowDrop

\* Lines 90-100: for row in rows.take(100) { use_text; y -= 4.5; if y < 20 break }
RECURSIVE EmitRows(_, _, _, _)
EmitRows(rows, i, y, acc) ==
    IF i > Len(rows) THEN [lines |-> acc, y |-> y]
    ELSE LET acc2 == Append(acc, UseText("row", 4, FmtRow(rows[i]), y))
             y2   == AfterRow(y)
         IN IF MarginHit(y2) THEN [lines |-> acc2, y |-> y2]
            ELSE EmitRows(rows, i + 1, y2, acc2)

\* Lines 40-100: the whole layout.
Layout(p) ==
    LET s0 == Header(p)
        s1 == Section(s0, 1, "Top Categories", p.top_categories, SectionGap)
        s2 == Section(s1, 2, "Top Users", p.top_users, SectionGap)
        s3 == Section(s2, 3, "Top Actions", p.top_actions, EventsGap)
        yt == s3.y - SectionDrop
        ev == EmitRows(Take(p.rows, MaxRows), 1, yt, <<>>)
    IN [lines |-> s3.lines \o <<UseText("section", 4, <<"Events (first 100)">>, s3.y)>>
                    \o ev.lines,
        y |-> ev.y, y0 |-> yt]

\* What the destination holds.  "old": a complete document from an earlier
\* run; "empty": created or truncated by File::create, nothing written;
\* "partial": some but not all of the document's bytes; "complete": this page.
DestStates == {"absent", "old", "empty", "partial", "complete"}

\* Lines 31-104.  The environment decides whether the font registers, whether
\* the path can be created and how far the write gets.
GeneratePdfReport(fontOk, createOk, saveOut) ==
    /\ rret = "none"
    /\ IF ~fontOk
       THEN \* line 38: ? returns before anything is drawn or created
            /\ rret' = "err" /\ rstage' = "font"
            /\ page' = <<>> /\ dest' = dest
       ELSE /\ page' = Layout(payload).lines
            /\ IF ~createOk
               THEN \* line 102: File::create failed
                    /\ rret' = "err" /\ rstage' = "create" /\ dest' = dest
               ELSE \* File::create has created or truncated the file
                    CASE saveOut = "ok" ->
                           /\ rret' = "ok" /\ rstage' = "done"
                           /\ dest' = "complete"
                      [] saveOut = "fail_empty" ->
                           /\ rret' = "err" /\ rstage' = "save"
                           /\ dest' = "empty"
                      [] OTHER ->
                           /\ rret' = "err" /\ rstage' = "save"
                           /\ dest' = "partial"
    /\ UNCHANGED <<payload, tvars, cvars>>

ReportCall ==
    \E fontOk \in BOOLEAN, createOk \in BOOLEAN,
       saveOut \in {"ok", "fail_empty", "fail_partial"} :
        GeneratePdfReport(fontOk, createOk, saveOut)

(***************************************************************************)
(*                           read_tail_chunk                               *)
(***************************************************************************)

MaxFile   == 3      \* longest file, in bytes
MaxAppend == 2      \* longest appended text, in code points

\* The code points the writers append: 'a' (one byte in UTF-8) and U+00E9
\* (two bytes, 0xC3 0xA9).
CodePoints == {97, 233}

RECURSIVE SeqsUpTo(_, _)
SeqsUpTo(S, n) ==
    IF n = 0 THEN {<<>>}
    ELSE LET shorter == SeqsUpTo(S, n - 1)
         IN shorter \cup { Append(s, x) : s \in {t \in shorter : Len(t) = n - 1}, x \in S }

Texts == SeqsUpTo(CodePoints, MaxAppend) \ {<<>>}

\* UTF-8 of one code point below U+0800 (what str holds in memory).
EncodeCp(c) == IF c < 128 THEN <<c>> ELSE <<192 + (c \div 64), 128 + (c % 64)>>

RECURSIVE Encode(_)
Encode(t) == IF t = <<>> THEN <<>> ELSE EncodeCp(Head(t)) \o Encode(Tail(t))

IsCont(b) == b >= 128 /\ b <= 191
IsLead2(b) == b >= 194 /\ b <= 223

\* The check read_to_string makes (core::str::from_utf8) on one- and two-byte
\* sequences: a lone continuation byte, a lead byte without its continuation
\* and the overlong leads 0xC0/0xC1 are rejected.  Bytes from 0xE0 up do not
\* occur in the files of this model and are rejected too.
RECURSIVE Utf8Valid(_)
Utf8Valid(b) ==
    IF b = <<>> THEN TRUE
    ELSE IF b[1] < 128 THEN Utf8Valid(Tail(b))
    ELSE IF IsLead2(b[1]) /\ Len(b) >= 2 /\ IsCont(b[2]) THEN Utf8Valid(Tail(Tail(b)))
    ELSE FALSE

\* The text of valid bytes, as code points.
RECURSIVE Decode(_)
Decode(b) ==
    IF b = <<>> THEN <<>>
    ELSE IF b[1] < 128 THEN <<b[1]>> \o Decode(Tail(b))
    ELSE <<(b[1] - 192) * 64 + (b[2] - 128)>> \o Decode(Tail(Tail(b)))

\* What String::from_utf8_lossy would give instead: every rejected byte
\* becomes U+FFFD (65533).  Used by the faulty variant of ReadToString.
RECURSIVE DecodeLossy(_)
DecodeLossy(b) ==
    IF b = <<>> THEN <<>>
    ELSE IF b[1] < 128 THEN <<b[1]>> \o DecodeLossy(Tail(b))
    ELSE IF IsLead2(b[1]) /\ Len(b) >= 2 /\ IsCont(b[2])
         THEN <<(b[1] - 192) * 64 + (b[2] - 128)>> \o DecodeLossy(Tail(Tail(b)))
    ELSE <<65533>> \o DecodeLossy(Tail(b))

ByteLen(t) == Len(Encode(t))

\* Result<(String, u64), String>
Ok(text, len) == [ok |-> TRUE, text |-> text, len |-> len, err |-> "none"]
Err(why)      == [ok |-> FALSE, text |-> <<>>, len |-> 0, err |-> why]

\* Line 108: File::open(path) succeeds only on an existing, readable file.
CanOpen(st) == st = "ok"

\* Faulty variant of NothingNew: the caller's offset echoed as the length.
NothingNewAtOffset(offset, file_len) == Ok(<<>>, offset)

\* Line 113: the value returned when offset >= file_len.
NothingNew(offset, file_len) == Ok(<<>>, file_len)

\* Faulty variant of SeekStart: off by one.
SeekStartNext(offset) == offset + 1

\* Line 116: file.seek(SeekFrom::Start(offset)) gives the position to read from.
SeekStart(offset) == offset

\* Faulty variant of ReadToString: lossy decoding, never an error.
ReadToStringLossy(f, pos, file_len) ==
    Ok(DecodeLossy(SubSeq(f, pos + 1, Len(f))), file_len)

\* Lines 118-120: read_to_string from position pos to the end of file f, and
\* the value built from it; file_len is the length measured at line 110.
ReadToString(f, pos, file_len) ==
    LET bytes == SubSeq(f, pos + 1, Len(f))
    IN IF Utf8Valid(bytes) THEN Ok(Decode(bytes), file_len) ELSE Err("decode")

\* Lines 107-121 run without anything else touching the file.
ReadTailChunk(st, f, offset) ==
    IF ~CanOpen(st) THEN Err("open")
    ELSE LET file_len == Len(f)
         IN IF offset >= file_len THEN NothingNew(offset, file_len)
            ELSE ReadToString(f, SeekStart(offset), file_len)

\* The record of a call kept for the properties.
\* The bytes of f from position offset to its end.
From(f, offset) == IF offset >= Len(f) THEN <<>> ELSE SubSeq(f, offset + 1, Len(f))

\* flen and tail are the file's length and its bytes from the offset on when
\* the call was made.
CallRec(called, st, f, offset, wasChain, wasOwed, r) ==
    [called |-> called, fstat |-> st, flen |-> Len(f), tail |-> From(f, offset),
     off |-> offset, chain |-> wasChain, owed |-> wasOwed, res |-> r]

NoCall == CallRec(FALSE, "ok", <<>>, 0, FALSE, <<>>, Err("none"))

\* ---- the file's other users ----

\* A writer appends text T.
AppendTo(f, T) == f \o Encode(T)

AppendText(T) ==
    /\ fstat = "ok"
    /\ Len(file) + ByteLen(T) <= MaxFile
    /\ file' = AppendTo(file, T)
    /\ owed' = owed \o T
    /\ UNCHANGED <<fstat, held, last, chain, first, got, rvars, cvars>>

\* The file is truncated in place to n bytes (n may split a character).
Truncate(n) ==
    /\ fstat = "ok"
    /\ n < Len(file)
    /\ file' = SubSeq(file, 1, n)
    /\ chain' = FALSE
    /\ owed' = <<>>
    /\ UNCHANGED <<fstat, held, last, first, got, rvars, cvars>>

\* The file is rotated: replaced by a new one holding text T.
Rotate(T) ==
    /\ fstat = "ok"
    /\ file' = Encode(T)
    /\ chain' = FALSE
    /\ owed' = <<>>
    /\ UNCHANGED <<fstat, held, last, first, got, rvars, cvars>>

\* The path is removed or moved away, made unreadable, or comes back (empty).
SetStatus(st) ==
    /\ fstat # st
    /\ fstat' = st
    /\ file' = IF st = "denied" THEN file ELSE <<>>
    /\ chain' = FALSE
    /\ owed' = <<>>
    /\ UNCHANGED <<held, last, first, got, rvars, cvars>>

\* ---- callers, whole-call view ----

\* The polling caller: read_tail_chunk(path, held), and the returned length
\* becomes its next offset.
Poll ==
    LET r == ReadTailChunk(fstat, file, held)
    IN /\ last' = CallRec(TRUE, fstat, file, held, chain, owed, r)
       /\ held' = IF r.ok THEN r.len ELSE held
       /\ IF r.ok
          THEN /\ chain' = TRUE
               /\ owed' = <<>>
               /\ first' = IF chain THEN first ELSE r.len
               /\ got' = IF chain THEN got \o r.text ELSE <<>>
          ELSE /\ chain' = FALSE
               /\ UNCHANGED <<owed, first, got>>
       /\ UNCHANGED <<fstat, file, rvars, cvars>>

\* Any other caller: read_tail_chunk(path, o) for an arbitrary offset.
Probe(o) ==
    /\ last' = CallRec(TRUE, fstat, file, o, FALSE, <<>>,
                       ReadTailChunk(fstat, file, o))
    /\ UNCHANGED <<fstat, file, held, owed, chain, first, got, rvars, cvars>>

(***************************************************************************)
(* read_tail_chunk, step view: each caller runs lines 108-120 one file     *)
(* system call at a time, on its own File handle, while writers append to  *)
(* and truncate the file in between.                                       *)
(***************************************************************************)

RaceFile == 3       \* longest file with one caller, in bytes
ConcFile == 3       \* longest file with two callers, in bytes

Procs == {1, 2}

\* The caller whose resynchronisation after a truncation is followed.
Tailer == CHOOSE p \in Procs : \A q \in Procs : p <= q

\* Faulty variant of HandleSeek: the callers share one file position.
HandleSeekShared(h, p, o) == [q \in Procs |-> o]

\* Line 116 on caller p's handle: only that handle's position moves.
HandleSeek(h, p, o) == [h EXCEPT ![p] = o]

\* The call of caller p returns r: the caller keeps the returned length as its
\* next offset.  When watch is set, pend, sync, coll and syncOk follow the
\* Tailer through a truncation: pend >= 0 says the file was cut to pend bytes,
\* below the Tailer's offset, before this call opened it and has not changed
\* since; sync >= 0 is the length such a call found, and coll the text the
\* Tailer was given after it.
Return(p, r) ==
    /\ res' = [res EXCEPT ![p] = r]
    /\ pc' = [pc EXCEPT ![p] = "idle"]
    /\ rheld' = [rheld EXCEPT ![p] = IF r.ok THEN r.len ELSE rheld[p]]
    /\ hpos' = [hpos EXCEPT ![p] = 0]      \* the File is dropped
    /\ IF watch /\ p = Tailer
       THEN IF pend >= 0
            THEN /\ sync' = pend
                 /\ coll' = <<>>
                 /\ syncOk' = (r = Ok(<<>>, pend))
                 /\ pend' = -1
            ELSE /\ coll' = IF sync >= 0 /\ r.ok THEN coll \o r.text ELSE coll
                 /\ syncOk' = IF sync >= 0 THEN syncOk /\ r.ok ELSE syncOk
                 /\ UNCHANGED <<sync, pend>>
       ELSE UNCHANGED <<pend, sync, coll, syncOk>>

\* Line 108: File::open(path).  alone and clean remember the file the call
\* opened and whether it has stayed as it was.
Open(p) ==
    /\ pc[p] = "idle"
    /\ off' = [off EXCEPT ![p] = rheld[p]]
    /\ alone' = [alone EXCEPT ![p] = file]
    /\ clean' = [clean EXCEPT ![p] = TRUE]
    /\ IF CanOpen(fstat)
       THEN /\ pc' = [pc EXCEPT ![p] = "opened"]
            /\ hpos' = [hpos EXCEPT ![p] = 0]
            /\ UNCHANGED <<res, rheld, flen, pend, sync, coll, syncOk>>
       ELSE /\ Return(p, Err("open"))
            /\ UNCHANGED flen
    /\ UNCHANGED <<watch, rvars, tvars>>

\* Lines 109-114: file.metadata(), metadata.len() and the early return.
Metadata(p) ==
    /\ pc[p] = "opened"
    /\ flen' = [flen EXCEPT ![p] = Len(file)]
    /\ IF off[p] >= Len(file)
       THEN Return(p, NothingNew(off[p], Len(file)))
       ELSE /\ pc' = [pc EXCEPT ![p] = "toseek"]
            /\ UNCHANGED <<res, rheld, hpos, pend, sync, coll, syncOk>>
    /\ UNCHANGED <<off, clean, alone, watch, rvars, tvars>>

\* Line 116: file.seek(SeekFrom::Start(offset)).
Seek(p) ==
    /\ pc[p] = "toseek"
    /\ hpos' = HandleSeek(hpos, p, SeekStart(off[p]))
    /\ pc' = [pc EXCEPT ![p] = "toread"]
    /\ UNCHANGED <<off, flen, res, rheld, clean, alone, pend, sync, coll, syncOk,
                   watch, rvars, tvars>>

\* Lines 118-120: read_to_string reads to what is the end of file now.
Read(p) ==
    /\ pc[p] = "toread"
    /\ Return(p, ReadToString(file, hpos[p], flen[p]))
    /\ UNCHANGED <<off, flen, clean, alone, watch, rvars, tvars>>

\* What a change of the file does to the callers' records: a call in
\* progress is no longer a call on an unchanged file.
Disturb ==
    /\ clean' = [p \in Procs |-> clean[p] /\ pc[p] = "idle"]
    /\ alone' = [p \in Procs |-> IF pc[p] = "idle" THEN alone[p] ELSE <<>>]

\* A writer appends text T while calls may be in progress.
RaceAppend(T, cap) ==
    /\ Len(file) + ByteLen(T) <= cap
    /\ file' = AppendTo(file, T)
    /\ Disturb
    /\ pend' = -1
    /\ UNCHANGED <<pc, off, flen, hpos, res, rheld, sync, coll, syncOk, watch>>
    /\ UNCHANGED <<fstat, held, last, owed, chain, first, got, rvars>>

\* The file is truncated in place to n bytes while calls may be in progress.
RaceTruncate(n) ==
    /\ n < Len(file)
    /\ file' = SubSeq(file, 1, n)
    /\ Disturb
    /\ pend' = IF watch /\ pc[Tailer] = "idle" /\ n < rheld[Tailer] THEN n ELSE -1
    /\ sync' = -1
    /\ coll' = <<>>
    /\ syncOk' = TRUE
    /\ UNCHANGED <<pc, off, flen, hpos, res, rheld, watch>>
    /\ UNCHANGED <<fstat, held, last, owed, chain, first, got, rvars>>

(***************************************************************************)
(*                            Specifications                               *)
(***************************************************************************)

InitTailVars ==
    /\ fstat = "ok" /\ file = <<>> /\ held = 0 /\ last = NoCall
    /\ owed = <<>> /\ chain = FALSE /\ first = 0 /\ got = <<>>

InitRaceVars ==
    /\ pc = [p \in Procs |-> "idle"]
    /\ off = [p \in Procs |-> 0]
    /\ flen = [p \in Procs |-> 0]
    /\ hpos = [p \in Procs |-> 0]
    /\ res = [p \in Procs |-> Err("none")]
    /\ rheld = [p \in Procs |-> 0]
    /\ clean = [p \in Procs |-> FALSE]
    /\ alone = [p \in Procs |-> <<>>]
    /\ pend = -1 /\ sync = -1 /\ coll = <<>> /\ syncOk = TRUE

InitReportVars(ps) ==
    /\ payload \in ps
    /\ dest \in {"absent", "old"}
    /\ page = <<>> /\ rret = "none" /\ rstage = "none"

\* generate_pdf_report applied to every payload of the bounds.
InitReport == InitReportVars(Payloads) /\ InitTailVars /\ InitRaceVars /\ watch = FALSE
SpecReport == InitReport /\ [][ReportCall]_vars

OnePayload == { p \in Payloads : Len(p.rows) = 2 /\ Len(p.top_categories) = 2
                                 /\ Len(p.top_users) = 0 /\ Len(p.top_actions) = 0 }

InitFile == InitReportVars(OnePayload) /\ dest = "absent" /\ InitTailVars /\ InitRaceVars


FileNext ==
    \/ \E T \in Texts : AppendText(T)
    \/ \E n \in 0..MaxFile : Truncate(n)
    \/ \E T \in Texts : Rotate(T)
    \/ \E st \in {"ok", "missing", "denied"} : SetStatus(st)

\* read_tail_chunk called whole with any offset, between the file's changes.
TailNext ==
    \/ FileNext
    \/ \E o \in 0..(MaxFile + 1) : Probe(o)

InitTail == InitFile /\ watch = FALSE

SpecTail == InitTail /\ [][TailNext]_vars

\* read_tail_chunk called whole by a caller that feeds the returned length
\* back as its next offset, between the file's changes.
PollNext ==
    \/ FileNext
    \/ Poll

InitPoll == InitFile /\ watch = FALSE

SpecPoll == InitPoll /\ [][PollNext]_vars

InitConc == InitFile /\ watch = FALSE

\* read_tail_chunk called by two callers, step by step, while a writer appends.
ConcNext ==
    \/ \E p \in Procs : Open(p)
    \/ \E p \in Procs : Metadata(p)
    \/ \E p \in Procs : Seek(p)
    \/ \E p \in Procs : Read(p)
    \/ \E T \in Texts : RaceAppend(T, ConcFile)

SpecConc == InitConc /\ [][ConcNext]_vars

\* read_tail_chunk called by the Tailer, step by step, among the file's changes.
RaceNext ==
    \/ Open(Tailer)
    \/ Metadata(Tailer)
    \/ Seek(Tailer)
    \/ Read(Tailer)
    \/ \E T \in Texts : RaceAppend(T, RaceFile)
    \/ \E n \in 0..RaceFile : RaceTruncate(n)

InitRace == InitFile /\ watch = TRUE

SpecRace == InitRace /\ [][RaceNext]_vars

(***************************************************************************)
(*                              Properties                                 *)
(* Page heights below are in half-millimetres: 40 is the 20.0 mm bottom    *)
(* margin, 9 the 4.5 mm row pitch, 414 is 207.0 mm and 12 is 6.0 mm.       *)
(***************************************************************************)

\* The call got past font registration, so the page was laid out.
LaidOut == rstage \in {"create", "save", "done"}

IsEntryOf(l, sec) == l.kind = "entry" /\ l.sec = sec
IsRow(l) == l.kind = "row"

\* The texts placed for ranked section sec, and for the event rows, in the
\* order they were placed.
EntryTexts(sec) ==
    LET ls == SelectSeq(page, LAMBDA l : IsEntryOf(l, sec))
    IN [i \in 1..Len(ls) |-> ls[i].text]
RowLines == SelectSeq(page, IsRow)
RowTexts == [i \in 1..Len(RowLines) |-> RowLines[i].text]

RankedInput(sec) ==
    CASE sec = 1 -> payload.top_categories
      [] sec = 2 -> payload.top_users
      [] OTHER   -> payload.top_actions

\* C1: each ranked section shows exactly the first min(5, n) entries of its
\* input sequence, formatted "label: count", in input order, and at most 100
\* event rows are placed, however long the inputs are.
C1_FirstFiveAndRowCap ==
    LaidOut =>
        /\ \A sec \in 1..3 :
             LET inp == RankedInput(sec)
             IN EntryTexts(sec) = [i \in 1..Min(5, Len(inp)) |-> FmtEntry(inp[i])]
        /\ Len(RowLines) <= 100

C1_Witness ==
    /\ rstage = "done"
    /\ Len(payload.top_categories) = 6 /\ Len(payload.top_users) = 3
    /\ Len(payload.top_actions) = 6 /\ Len(payload.rows) = 101
    /\ Len(EntryTexts(1)) = 5 /\ Len(EntryTexts(2)) = 3

\* C2: no event row is placed below the bottom margin; when rows are dropped
\* it is because the cursor crossed the margin after the last placed row; and
\* once the page is laid out the call goes on to create and save the file, so
\* a failure, if any, comes from there and never from the layout.
C2_StopsAtBottomMargin ==
    (rret # "none" /\ page # <<>>) =>
        /\ \A i \in 1..Len(RowLines) : RowLines[i].y >= 40
        /\ Len(RowLines) < Min(Len(payload.rows), 100) =>
             /\ Len(RowLines) >= 1
             /\ RowLines[Len(RowLines)].y - 9 < 40
        /\ rret = "err" => rstage \in {"create", "save"}

C2_Witness ==
    /\ rstage = "done" /\ rret = "ok"
    /\ Len(payload.rows) = 30 /\ Len(RowLines) = 22

\* C10: the rows placed are the first n input rows in order, with
\* n = min(|rows|, 100, floor((y0 - 20) / 4.5) + 1) and y0 = 207 - 6 e, where e
\* is the number of ranked entries placed; so 117 <= y0 <= 207, n >= 1 when
\* there are rows, n <= 42, and n <= 22 when every ranked section holds 5 or
\* more entries.
C10_RowCount ==
    LaidOut =>
        LET e  == Min(5, Len(payload.top_categories)) + Min(5, Len(payload.top_users))
                    + Min(5, Len(payload.top_actions))
            y0 == 414 - 12 * e
            n  == Min(Min(Len(payload.rows), 100), ((y0 - 40) \div 9) + 1)
        IN /\ RowTexts = [i \in 1..n |-> FmtRow(payload.rows[i])]
           /\ \A i \in 1..Len(RowLines) : RowLines[i].y = y0 - 9 * (i - 1)
           /\ y0 >= 234 /\ y0 <= 414
           /\ payload.rows # <<>> => n >= 1
           /\ n <= 42
           /\ (/\ Len(payload.top_categories) >= 5 /\ Len(payload.top_users) >= 5
               /\ Len(payload.top_actions) >= 5) => n <= 22

C10_Witness ==
    /\ rstage = "done"
    /\ Len(payload.top_categories) = 0 /\ Len(payload.top_users) = 0
    /\ Len(payload.top_actions) = 0
    /\ Len(payload.rows) = 44 /\ Len(RowLines) = 42

\* C7: when the call returns a failure, the destination holds no partly
\* written document: it is as it was before the call.
C7_NoPartialOnFailure ==
    rret = "err" => dest \in {"absent", "old"}

\* Bytes that are the UTF-8 of some text.
IsText(b) == \E t \in SeqsUpTo(CodePoints, Len(b)) : Encode(t) = b

\* C3: on a file that can be opened, a call with offset >= the file's length
\* returns the success ("", length).
C3_NothingNewAtOrPastEnd ==
    (last.called /\ last.fstat = "ok" /\ last.off >= last.flen) =>
        last.res = [ok |-> TRUE, text |-> <<>>, len |-> last.flen, err |-> "none"]

C3_Witness ==
    /\ last.called /\ last.fstat = "ok"
    /\ last.flen > 0 /\ last.off > last.flen
    /\ last.res.ok /\ last.res.len = last.flen

\* C8: the call fails when the file cannot be opened and when the bytes from
\* the offset to the end are not the UTF-8 of a text; a success carries
\* exactly the text of those bytes, nothing substituted or dropped.
C8_FailsOnOpenAndDecode ==
    last.called =>
        /\ last.fstat # "ok" => ~last.res.ok
        /\ (last.fstat = "ok" /\ ~IsText(last.tail)) => ~last.res.ok
        /\ last.res.ok => Encode(last.res.text) = last.tail

C8_Witness ==
    /\ last.called /\ last.fstat = "ok"
    /\ last.off = 2 /\ last.tail = <<169>>
    /\ ~last.res.ok

\* C4: a call made with the length the previous call returned, after only
\* appends to the file, returns exactly the appended text and that length
\* plus the text's length in bytes; and the texts returned by a chain of such
\* calls, put together, are the file from the chain's first offset on.
C4_MonotonicConsumption ==
    /\ (last.called /\ last.chain) =>
          last.res = [ok |-> TRUE, text |-> last.owed,
                      len |-> last.off + ByteLen(last.owed), err |-> "none"]
    /\ chain => /\ held = Len(file) - ByteLen(owed)
                /\ Encode(got) = SubSeq(file, first + 1, held)

C4_Witness ==
    /\ last.called /\ last.chain
    /\ last.off = 1 /\ last.owed = <<233>>
    /\ last.res.ok /\ last.res.len = 3
    /\ got = <<233>> /\ first = 1

\* C6: a call that ran on an unchanged file left the file as it was and
\* returned what the call made alone on that file returns, whatever the other
\* caller did meanwhile; so two such calls with one offset on one file agree.
C6_PureAndIndependent ==
    /\ \A p \in Procs :
         /\ (pc[p] # "idle" /\ clean[p]) => file = alone[p]
         /\ (pc[p] = "idle" /\ clean[p]) =>
                res[p] = ReadTailChunk("ok", alone[p], off[p])
    /\ \A p, q \in Procs :
         (/\ pc[p] = "idle" /\ pc[q] = "idle" /\ clean[p] /\ clean[q]
          /\ off[p] = off[q] /\ alone[p] = alone[q]) => res[p] = res[q]

C6_Witness ==
    /\ pc[1] = "idle" /\ clean[1] /\ res[1].ok /\ res[1].text # <<>>
    /\ pc[2] = "toread" /\ clean[2]
    /\ off[2] = off[1] /\ alone[2] = alone[1] /\ file = alone[1]

\* C9: every successful call whose offset is at most the length it measured
\* returns newLength = offset + the byte length of newText, also when a
\* writer appends while the call is in progress.
C9_LengthMatchesText ==
    \A p \in Procs :
        (pc[p] = "idle" /\ res[p].ok /\ off[p] <= flen[p]) =>
            res[p].len = off[p] + ByteLen(res[p].text)

\* C5: after the file was cut to sync bytes, below the caller's offset, the
\* caller's next call returned ("", sync) without error, and the texts its
\* calls returned since, put together, are exactly the bytes appended after
\* position sync up to the caller's offset, each once and in order.
C5_ResyncAfterTruncation ==
    /\ syncOk
    /\ (sync >= 0 /\ pc[Tailer] = "idle") =>
           /\ rheld[Tailer] <= Len(file)
           /\ Encode(coll) = SubSeq(file, sync + 1, rheld[Tailer])

=============================================================================
